---- MODULE Spec2Model ----
(***************************************************************************)
(* A model of werkzeug's debug representation engine                       *)
(* (src/werkzeug/debug/repr.py) and of the file naming of the profiler     *)
(* middleware (src/werkzeug/middleware/profiler.py).                       *)
(*                                                                         *)
(* Text is a sequence of characters (one-character strings).  A fragment   *)
(* is a sequence of tokens: the engine's own markup is written as tokens   *)
(* of several characters ("<span class=\"number\">", "&lt;", ", "), the    *)
(* characters that come from the inspected value stay one-character        *)
(* tokens.  A markup-significant one-character token in a fragment is      *)
(* therefore a character of the inspected value that was not escaped.      *)
(*                                                                         *)
(* The inspected values live in a heap: a sequence of object records, an   *)
(* object's identity being its index.  The engine is a machine of call     *)
(* frames: one frame per active call of repr, dump_object or dump_locals.  *)
(***************************************************************************)
EXTENDS Integers, Sequences, FiniteSets, TLC

VARIABLES
    heap,       \* the inspected value graph: identity -> object
    phase,      \* "idle" before the top-level call, "running", "done"
    call,       \* the top-level call: the method and its argument
    frames,     \* the active calls, the innermost last
    _stack,     \* DebugReprGenerator._stack: the identities being rendered
    exc,        \* the exception propagating between frames, or "none"
    last,       \* the repr call that completed most recently
    result,     \* what the top-level call gave its caller
    environ,    \* the WSGI environ of the profiled request
    profiler,   \* the ProfilerMiddleware instance: profile_dir, filename_format
    presult     \* what ProfilerMiddleware.__call__ gave its caller

vars == <<heap, phase, call, frames, _stack, exc, last, result, environ, profiler, presult>>

reprVars == <<heap, phase, call, frames, _stack, exc, last, result>>

profVars == <<environ, profiler, presult>>

\* ------------------------------------------------------------------ bounds

\* Longest text (string content, pattern, native repr) of the scalar values.
MaxText == 2

\* How far the long strings reach below and above the string limit.
MaxOver == 3

\* How far the flat containers reach above the element limit.
MaxExtra == 2

\* Longest element list of a container of the cyclic value graphs.
MaxItems == 2

\* Longest PATH_INFO of the profiled requests.
MaxPath == 4

\* ------------------------------------------------------- program constants

\* _sequence_repr_maker(..., limit=8)
SeqLimit == 8

\* dict_repr(self, d, recursive, limit=5)
DictLimit == 5

\* string_repr(self, obj, limit=70)
StrLimit == 70

\* ------------------------------------------------------------------- text

Range(s) == {s[i] : i \in 1..Len(s)}

RECURSIVE Join(_)
\* "".join(buf): the pieces of a buffer, concatenated.
Join(buf) == IF buf = <<>> THEN <<>> ELSE Head(buf) \o Join(Tail(buf))

TextsUpTo(alphabet, n) == UNION {[1..k -> alphabet] : k \in 0..n}

Repeat(c, n) == [i \in 1..n |-> c]

\* The characters html.escape rewrites (quote=True).
Significant == {"&", "<", ">", "\"", "'"}

\* html.escape, one character.
EscapeChar(c) ==
    CASE c = "&" -> "&amp;"
      [] c = "<" -> "&lt;"
      [] c = ">" -> "&gt;"
      [] c = "\"" -> "&quot;"
      [] c = "'" -> "&#x27;"
      [] OTHER -> c

\* html.escape(s)
escape(s) == [i \in 1..Len(s) |-> EscapeChar(s[i])]

\* repr() of a str: the quote is ' unless the text holds ' and no ", the
\* quote and the backslash are written with a backslash before them.
StrRepr(chars) ==
    LET q == IF "'" \in Range(chars) /\ "\"" \notin Range(chars) THEN "\"" ELSE "'"
        one(c) == IF c = q \/ c = "\\" THEN <<"\\", c>> ELSE <<c>>
    IN  <<q>> \o Join([i \in 1..Len(chars) |-> one(chars[i])]) \o <<q>>

\* repr() of a bytes value.
BytesRepr(chars) == <<"b">> \o StrRepr(chars)

RECURSIVE UnicodeEscapeDecode(_)
\* codecs.decode(pattern, "unicode-escape", "ignore") on the characters of the
\* model: a backslash and the character after it become that character.
UnicodeEscapeDecode(s) ==
    IF s = <<>> THEN <<>>
    ELSE IF s[1] = "\\"
         THEN IF Len(s) = 1 THEN <<>>
              ELSE IF s[2] \in {"\\", "'", "\""}
                   THEN <<s[2]>> \o UnicodeEscapeDecode(SubSeq(s, 3, Len(s)))
                   ELSE <<s[1], s[2]>> \o UnicodeEscapeDecode(SubSeq(s, 3, Len(s)))
         ELSE <<s[1]>> \o UnicodeEscapeDecode(Tail(s))

\* ----------------------------------------------------------------- values

ContainerKinds == {"list", "tuple", "set", "frozenset", "dict", "deque"}

\* The branch of dispatch_repr an object takes (its first isinstance match).
Kinds == {"help", "number", "str", "bytes", "regex", "object"} \cup ContainerKinds

\* What rendering an object raises: nothing, an Exception, an Exception whose
\* summary cannot be formatted, or a BaseException that is no Exception
\* (KeyboardInterrupt, SystemExit, GeneratorExit).
Raises == {"none", "Exception", "ExceptionNoSummary", "BaseException"}

\* An exact built-in value of a kind: type(obj) is the kind's base type.
Obj(kind, tmodule, tname) ==
    [kind |-> kind, tmodule |-> tmodule, tname |-> tname,
     chars |-> <<>>, lit |-> <<>>, items |-> <<>>, raises |-> "none",
     attrs |-> <<>>, dirRaises |-> FALSE]

\* The type a base-type value of each container and text kind has.
BaseType(kind) ==
    CASE kind = "deque" -> <<<<"collections">>, <<"deque">>>>
      [] kind = "number" -> <<<<"builtins">>, <<"int">>>>
      [] kind = "regex" -> <<<<"re">>, <<"Pattern">>>>
      [] kind = "help" -> <<<<"werkzeug.debug.repr">>, <<"_Helper">>>>
      [] OTHER -> <<<<"builtins">>, <<kind>>>>

TypeOf(o) == <<o.tmodule, o.tname>>

Exact(kind) == Obj(kind, BaseType(kind)[1], BaseType(kind)[2])

IsContainer(o) == o.kind \in ContainerKinds

\* -------------------------------------------------------------- renderers

SpanNumber == "<span class=\"number\">"

SpanString == "<span class=\"string\">"

SpanRegex == "<span class=\"string regex\">"

SpanObject == "<span class=\"object\">"

SpanHelp == "<span class=\"help\">"

SpanModule == "<span class=\"module\">"

SpanBroken == "<span class=\"brokenrepr\">"

SpanExtended == "<span class=\"extended\">"

SpanClose == "</span>"

\* The base type(s) a renderer hands to _add_subclass_info.
Bases(kind) ==
    IF kind \in {"str", "bytes"} THEN {BaseType("bytes"), BaseType("str")}
    ELSE {BaseType(kind)}

AddSubclassInfoIsInstance(inner, o, bases) == inner

\* _add_subclass_info(inner, obj, base)
AddSubclassInfo(inner, o, bases) ==
    IF TypeOf(o) \in bases THEN inner
    ELSE LET module ==
                 IF o.tmodule \notin {<<"__builtin__">>, <<"exceptions">>}
                 THEN <<SpanModule>> \o o.tmodule \o <<".", SpanClose>>
                 ELSE <<>>
         IN  module \o o.tname \o <<"(">> \o inner \o <<")">>

\* The bracket pairs _sequence_repr_maker is instantiated with, and dict's.
Left(kind) ==
    CASE kind = "list" -> <<"[">>
      [] kind = "tuple" -> <<"(">>
      [] kind = "set" -> <<"set([">>
      [] kind = "frozenset" -> <<"frozenset([">>
      [] kind = "deque" -> <<SpanModule, "collections.", SpanClose, "deque([">>
      [] kind = "dict" -> <<"{">>

Right(kind) ==
    CASE kind = "list" -> <<"]">>
      [] kind = "tuple" -> <<")">>
      [] kind = "dict" -> <<"}">>
      [] OTHER -> <<"])">>

\* The recursion placeholder: f"{left}...{right}", "{...}" for a mapping.
Placeholder(kind) == Left(kind) \o <<"...">> \o Right(kind)

\* The index (0-based, as enumerate counts) at which the renderer of a kind
\* opens the "extended" wrapper.
ExtendedAt(kind) == IF kind = "dict" THEN DictLimit - 1 ELSE SeqLimit

\* What a call that makes no nested call gives: the exception it raises
\* (or "none"), the exception summary, its buffer and its fragment.
Outcome(e, info, buf, out) == [exc |-> e, info |-> info, buf |-> buf, out |-> out]

Raised(o) == Outcome(o.raises, <<"Exception", ": ">> \o o.chars, <<>>, <<>>)

\* string_repr(self, obj, limit=70)
string_repr(o) ==
    LET r == o.lit
        limit == StrLimit
        buf == IF Len(r) - limit > 2
               THEN <<<<SpanString>>, escape(SubSeq(r, 1, limit)), <<SpanExtended>>,
                      escape(SubSeq(r, limit + 1, Len(r))), <<SpanClose>>, <<SpanClose>>>>
               ELSE <<<<SpanString>>, escape(r), <<SpanClose>>>>
        out == Join(buf)
        IndexError == Outcome("Exception",
                              <<"IndexError", ": ", "string index out of range">>, buf, <<>>)
    IN  IF Len(r) = 0 THEN IndexError
        ELSE IF r[1] \in {"'", "\""} THEN Outcome("none", <<>>, buf, AddSubclassInfo(out, o, Bases("str")))
        ELSE IF r[1] = "b"
             THEN IF Len(r) = 1 THEN IndexError
                  ELSE IF r[2] \in {"'", "\""}
                       THEN Outcome("none", <<>>, buf, AddSubclassInfo(out, o, Bases("str")))
                       ELSE Outcome("none", <<>>, buf, out)
        ELSE Outcome("none", <<>>, buf, out)

\* regex_repr(self, obj)
regex_repr(o) ==
    LET pattern == <<"r">> \o UnicodeEscapeDecode(StrRepr(o.chars))
    IN  Outcome("none", <<>>, <<>>,
                <<"re.compile(", SpanRegex>> \o pattern \o <<SpanClose, ")">>)

\* object_repr(self, obj)
object_repr(o) == Outcome("none", <<>>, <<>>, <<SpanObject>> \o escape(o.lit) \o <<SpanClose>>)

\* dispatch_repr(self, obj, recursive), for a value that is rendered without a
\* nested call: a scalar, a pattern, a generic object, the help sentinel, a
\* container met again on its own chain of ancestors, a value whose own
\* __repr__ or __iter__ raises.
dispatch_repr(o, recursive) ==
    IF o.kind = "help"
    THEN Outcome("none", <<>>, <<>>,
                 <<SpanHelp, "Type help(object) for help about object.", SpanClose>>)
    ELSE IF IsContainer(o) /\ recursive
    THEN Outcome("none", <<>>, <<>>, AddSubclassInfo(Placeholder(o.kind), o, Bases(o.kind)))
    ELSE IF o.raises # "none" THEN Raised(o)
    ELSE CASE o.kind = "number" -> Outcome("none", <<>>, <<>>, <<SpanNumber>> \o o.lit \o <<SpanClose>>)
           [] o.kind \in {"str", "bytes"} -> string_repr(o)
           [] o.kind = "regex" -> regex_repr(o)
           [] OTHER -> object_repr(o)

\* fallback_repr(self): the summary of the exception being handled, or "?".
fallback_repr(e, summary) ==
    LET info == IF e = "ExceptionNoSummary" THEN <<"?">> ELSE summary
    IN  <<SpanBroken, "&lt;broken repr (">> \o escape(info) \o <<")&gt;</span>">>

CaughtByNoHandler(e) == FALSE

\* The exceptions "except Exception" catches.
CaughtByExceptException(e) == e \in {"Exception", "ExceptionNoSummary"}

\* repr(self, obj), between the push and the pop: dispatch, and the fallback
\* when dispatch raises an Exception.
TryDispatch(o, recursive) ==
    LET d == dispatch_repr(o, recursive)
    IN  IF CaughtByExceptException(d.exc)
        THEN Outcome("none", d.info, d.buf, fallback_repr(d.exc, d.info))
        ELSE d

\* ---------------------------------------------------------------- frames

\* One active call.  fn is the method; obj its argument; recursive, idx, buf,
\* have_extended_section, items, repr and title are the method's locals of
\* those names; stage is the position in the method's body; keyfrag is the
\* rendered key of the mapping entry being formatted.
Frame(fn, obj, recursive, stage) ==
    [fn |-> fn, obj |-> obj, recursive |-> recursive, stage |-> stage, idx |-> 0,
     buf |-> <<>>, have_extended_section |-> FALSE, keyfrag |-> <<>>,
     items |-> <<>>, items_none |-> TRUE, repr |-> <<>>, repr_none |-> TRUE,
     title |-> <<>>]

Top == frames[Len(frames)]

\* A repr call that iterates its argument: a container that is not on its own
\* chain of ancestors and whose iteration (for a mapping, its items()) does
\* not raise.
Expanding(f) ==
    /\ f.fn = "repr"
    /\ IsContainer(heap[f.obj])
    /\ ~f.recursive
    /\ heap[f.obj].raises = "none"

Front(s) == SubSeq(s, 1, Len(s) - 1)

NoTopCall == [fn |-> "none", obj |-> 0]

NoCall == [obj |-> 0, recursive |-> FALSE, buf |-> <<>>, out |-> <<>>, exc |-> "none"]

NoResult ==
    [kind |-> "none", value |-> <<>>, title |-> <<>>, items |-> <<>>, repr |-> <<>>,
     repr_none |-> TRUE]

Returned(f) == [NoResult EXCEPT !.kind = "returned", !.value = f]

IsOnStackByEquality(stack, obj) == \E i \in 1..Len(stack) : heap[stack[i]] = heap[obj]

IsOnStackParentOnly(stack, obj) == stack # <<>> /\ stack[Len(stack)] = obj

\* repr(self, obj): "for item in self._stack: if item is obj".
IsOnStack(stack, obj) == \E i \in 1..Len(stack) : stack[i] = obj

PopOnExitUnlessRaised(stack, e) == IF e = "none" THEN Front(stack) ELSE stack

\* repr(self, obj): "finally: self._stack.pop()", whatever the try block did.
PopOnExit(stack, e) == Front(stack)

\* The f-string of dict_repr: one pair of a rendered key and a rendered value.
PairPiece(k, v) ==
    <<"<span class=\"pair\"><span class=\"key\">">> \o k
        \o <<"</span>: <span class=\"value\">">> \o v \o <<"</span></span>">>

IsTextKeyUnchecked(key) == TRUE

\* dump_object: isinstance(key, str)
IsTextKey(key) == heap[key].kind \in {"str"}

\* The name of the row a dump makes of entry idx of a mapping: the key itself.
KeyOf(o, idx) == heap[o.items[idx][1]].chars

\* What the calling frame does with the fragment a nested repr call returns.
Receive(f, frag) ==
    LET o == heap[f.obj]
    IN  CASE f.fn = "repr" /\ o.kind = "dict" /\ f.stage = "key" ->
                [f EXCEPT !.keyfrag = frag, !.stage = "value"]
          [] f.fn = "repr" /\ o.kind = "dict" /\ f.stage = "value" ->
                [f EXCEPT !.buf = Append(@, PairPiece(f.keyfrag, frag)),
                          !.idx = @ + 1, !.stage = "key", !.keyfrag = <<>>]
          [] f.fn = "repr" /\ o.kind # "dict" ->
                [f EXCEPT !.buf = Append(@, frag), !.idx = @ + 1]
          [] f.fn = "dump_object" /\ f.stage = "top" ->
                [f EXCEPT !.repr = frag, !.repr_none = FALSE, !.stage = "dir"]
          [] f.fn = "dump_object" /\ f.stage = "entries" ->
                [f EXCEPT !.items = Append(@, <<KeyOf(o, f.idx + 1), frag>>), !.idx = @ + 1]
          [] f.fn = "dump_object" /\ f.stage = "attrs" ->
                [f EXCEPT !.items = Append(@, <<o.attrs[f.idx + 1].name, frag>>), !.idx = @ + 1]
          [] f.fn = "dump_locals" ->
                [f EXCEPT !.items = Append(@, <<KeyOf(o, f.idx + 1), frag>>), !.idx = @ + 1]

\* A call returns frag to the frames fr below it.
Deliver(fr, frag) ==
    IF fr = <<>>
    THEN /\ frames' = <<>>
         /\ phase' = "done"
         /\ result' = Returned(frag)
    ELSE /\ frames' = [fr EXCEPT ![Len(fr)] = Receive(@, frag)]
         /\ UNCHANGED <<phase, result>>

\* A call lets exception e out to the frames fr below it.
Propagate(fr, e) ==
    IF fr = <<>>
    THEN /\ frames' = <<>>
         /\ phase' = "done"
         /\ result' = [NoResult EXCEPT !.kind = "raised", !.value = <<e>>]
         /\ exc' = "none"
    ELSE /\ frames' = fr
         /\ exc' = e
         /\ UNCHANGED <<phase, result>>

\* repr(self, obj) is entered from the frames fr: the scan of the ancestor
\* stack and the push.
Enter(fr, obj) ==
    /\ frames' = Append(fr, Frame("repr", obj, IsOnStack(_stack, obj), "key"))
    /\ _stack' = Append(_stack, obj)

Running == phase = "running" /\ frames # <<>> /\ exc = "none"

\* ------------------------------------------------------------ repr actions

\* debug_repr(obj): a fresh generator renders obj.
StartRepr(obj) ==
    /\ phase = "idle"
    /\ phase' = "running"
    /\ call' = [fn |-> "repr", obj |-> obj]
    /\ Enter(<<>>, obj)
    /\ UNCHANGED <<heap, exc, last, result, profVars>>

\* repr(self, obj) of a value rendered without a nested call, from dispatch to
\* the return.
ReprLeaf ==
    /\ Running
    /\ Top.fn = "repr"
    /\ ~Expanding(Top)
    /\ LET r == TryDispatch(heap[Top.obj], Top.recursive)
       IN  /\ last' = [obj |-> Top.obj, recursive |-> Top.recursive, buf |-> r.buf,
                       out |-> r.out, exc |-> r.exc]
           /\ _stack' = PopOnExit(_stack, r.exc)
           /\ IF r.exc = "none"
              THEN Deliver(Front(frames), r.out) /\ exc' = exc
              ELSE Propagate(Front(frames), r.exc)
    /\ UNCHANGED <<heap, call, profVars>>

\* One turn of the loop of proxy (_sequence_repr_maker) or of dict_repr, up to
\* the nested self.repr call.
IterCall ==
    /\ Running
    /\ Expanding(Top)
    /\ Top.idx < Len(heap[Top.obj].items)
    /\ LET f == Top
           o == heap[f.obj]
           sep == IF f.idx # 0 THEN <<<<", ">>>> ELSE <<>>
           ext == f.idx = ExtendedAt(o.kind)
           open == IF ext THEN <<<<SpanExtended>>>> ELSE <<>>
           start == IF f.idx = 0 /\ f.stage = "key" THEN <<Left(o.kind)>> ELSE <<>>
           g == IF o.kind = "dict" /\ f.stage = "value" THEN f
                ELSE [f EXCEPT !.buf = start \o @ \o sep \o open,
                               !.have_extended_section = @ \/ ext]
           item == IF o.kind # "dict" THEN o.items[f.idx + 1]
                   ELSE IF f.stage = "key" THEN o.items[f.idx + 1][1]
                   ELSE o.items[f.idx + 1][2]
       IN  Enter([frames EXCEPT ![Len(frames)] = g], item)
    /\ UNCHANGED <<heap, call, phase, exc, last, result, profVars>>

\* The end of proxy or dict_repr: the wrapper is closed, the bracket added, the
\* buffer joined and annotated, and repr returns.
IterFinish ==
    /\ Running
    /\ Expanding(Top)
    /\ Top.idx = Len(heap[Top.obj].items)
    /\ LET f == Top
           o == heap[f.obj]
           start == IF f.idx = 0 THEN <<Left(o.kind)>> ELSE <<>>
           close == IF f.have_extended_section THEN <<<<SpanClose>>>> ELSE <<>>
           buf == start \o f.buf \o close \o <<Right(o.kind)>>
           out == AddSubclassInfo(Join(buf), o, Bases(o.kind))
       IN  /\ last' = [obj |-> f.obj, recursive |-> FALSE, buf |-> buf, out |-> out,
                       exc |-> "none"]
           /\ _stack' = PopOnExit(_stack, "none")
           /\ Deliver(Front(frames), out)
    /\ UNCHANGED <<heap, call, exc, profVars>>

\* An exception passes through the innermost frame: repr's "except Exception"
\* turns an Exception into the fallback fragment and lets anything else
\* through, its "finally" pops the ancestor stack; dump_object's loop over the
\* attributes drops an Exception and the attribute with it; nothing else
\* handles anything.
Unwind ==
    /\ phase = "running"
    /\ frames # <<>>
    /\ exc # "none"
    /\ LET f == Top
       IN  CASE f.fn = "repr" ->
                  /\ _stack' = PopOnExit(_stack, exc)
                  /\ IF CaughtByExceptException(exc)
                     THEN /\ last' = [obj |-> f.obj, recursive |-> f.recursive, buf |-> f.buf,
                                      out |-> fallback_repr(exc, <<"Exception", ": ">>),
                                      exc |-> "none"]
                          /\ Deliver(Front(frames), fallback_repr(exc, <<"Exception", ": ">>))
                          /\ exc' = "none"
                     ELSE /\ last' = [obj |-> f.obj, recursive |-> f.recursive, buf |-> f.buf,
                                      out |-> <<>>, exc |-> exc]
                          /\ Propagate(Front(frames), exc)
             [] f.fn = "dump_object" /\ f.stage = "attrs" /\ CaughtByExceptException(exc) ->
                  /\ frames' = [frames EXCEPT ![Len(frames)].idx = @ + 1]
                  /\ exc' = "none"
                  /\ UNCHANGED <<_stack, last, phase, result>>
             [] OTHER ->
                  /\ Propagate(Front(frames), exc)
                  /\ UNCHANGED <<_stack, last>>
    /\ UNCHANGED <<heap, call, profVars>>

\* ------------------------------------------------------------ dump actions

RECURSIVE JoinWith(_, _)
\* sep.join(pieces)
JoinWith(sep, pieces) ==
    IF pieces = <<>> THEN <<>>
    ELSE IF Len(pieces) = 1 THEN pieces[1]
    ELSE pieces[1] \o sep \o JoinWith(sep, Tail(pieces))

\* render_object_dump(self, items, title, repr=None)
render_object_dump(items, title, repr, repr_none) ==
    LET rows == [i \in 1..Len(items) |->
                    <<"<tr><th>">> \o escape(items[i][1]) \o <<"<td><pre class=repr>">>
                        \o items[i][2] \o <<"</pre>">>]
        html_items == IF rows = <<>> THEN <<<<"<tr><td><em>Nothing</em>">>>> ELSE rows
    IN  <<"<div class=box>\n  <h3>">> \o escape(title) \o <<"</h3>\n  ">>
            \o <<"<pre class=repr>">> \o (IF repr_none THEN <<>> ELSE repr) \o <<"</pre>">>
            \o <<"\n  <table>">> \o JoinWith(<<"\n">>, html_items) \o <<"</table>\n</div>">>

\* object.__repr__(obj)[1:-1]: the type's qualified name and the address.
Descriptor(o) ==
    (IF o.tmodule = <<"builtins">> THEN <<>> ELSE o.tmodule \o <<".">>)
        \o o.tname \o <<" object at 0x", "..">>

\* A dump returns: what render_object_dump was given, and what it made of it.
Rendered(f, title) ==
    [kind |-> "returned", value |-> render_object_dump(f.items, title, f.repr, f.repr_none),
     title |-> title, items |-> f.items, repr |-> f.repr, repr_none |-> f.repr_none]

\* dump(obj): a fresh generator dumps obj.
StartDumpObject(obj) ==
    /\ phase = "idle"
    /\ phase' = "running"
    /\ call' = [fn |-> "dump_object", obj |-> obj]
    /\ frames' = <<Frame("dump_object", obj, FALSE, "start")>>
    /\ UNCHANGED <<heap, _stack, exc, last, result, profVars>>

\* dump_object(self, obj), from one nested self.repr call to the next.
DumpObjectStep ==
    /\ Running
    /\ Top.fn = "dump_object"
    /\ LET f == Top
           o == heap[f.obj]
           set(g) == /\ frames' = [frames EXCEPT ![Len(frames)] = g]
                     /\ UNCHANGED <<_stack, exc, phase, result>>
           finish(title) == /\ frames' = <<>>
                            /\ phase' = "done"
                            /\ result' = Rendered(f, title \o <<" ">> \o Descriptor(o))
                            /\ UNCHANGED <<_stack, exc>>
       IN  CASE f.stage = "start" ->
                  \* isinstance(obj, dict), and the call of obj.items()
                  IF o.kind # "dict" THEN set([f EXCEPT !.stage = "top"])
                  ELSE IF o.raises # "none"
                       THEN Propagate(Front(frames), o.raises) /\ UNCHANGED _stack
                       ELSE set([f EXCEPT !.title = <<"Contents of">>, !.items = <<>>,
                                          !.items_none = FALSE, !.stage = "entries"])
             [] f.stage = "entries" ->
                  IF f.idx = Len(o.items) THEN finish(f.title)
                  ELSE IF ~IsTextKey(o.items[f.idx + 1][1])
                       THEN set([f EXCEPT !.items = <<>>, !.items_none = TRUE, !.stage = "top"])
                       ELSE /\ Enter(frames, o.items[f.idx + 1][2])
                            /\ UNCHANGED <<exc, phase, result>>
             [] f.stage = "top" ->
                  \* items is None: items = [], repr = self.repr(obj)
                  /\ Enter([frames EXCEPT ![Len(frames)] =
                               [f EXCEPT !.items = <<>>, !.items_none = FALSE]], f.obj)
                  /\ UNCHANGED <<exc, phase, result>>
             [] f.stage = "dir" ->
                  \* dir(obj)
                  IF o.dirRaises
                  THEN Propagate(Front(frames), "Exception") /\ UNCHANGED _stack
                  ELSE set([f EXCEPT !.stage = "attrs", !.idx = 0])
             [] f.stage = "attrs" ->
                  IF f.idx = Len(o.attrs) THEN finish(<<"Details for">>)
                  ELSE IF o.attrs[f.idx + 1].raises
                       THEN \* getattr raises: except Exception: pass
                            set([f EXCEPT !.idx = @ + 1])
                       ELSE /\ Enter(frames, o.attrs[f.idx + 1].val)
                            /\ UNCHANGED <<exc, phase, result>>
    /\ UNCHANGED <<heap, call, last, profVars>>

\* dump(): a fresh generator dumps the mapping d of a frame's local variables.
StartDumpLocals(d) ==
    /\ phase = "idle"
    /\ heap[d].kind = "dict"
    /\ phase' = "running"
    /\ call' = [fn |-> "dump_locals", obj |-> d]
    /\ frames' = <<Frame("dump_locals", d, FALSE, "start")>>
    /\ UNCHANGED <<heap, _stack, exc, last, result, profVars>>

\* dump_locals(self, d), from one nested self.repr call to the next; escape(key)
\* of render_object_dump raises on a key that is no text.
DumpLocalsStep ==
    /\ Running
    /\ Top.fn = "dump_locals"
    /\ LET f == Top
           o == heap[f.obj]
       IN  CASE f.stage = "start" ->
                  IF o.raises # "none"
                  THEN Propagate(Front(frames), o.raises) /\ UNCHANGED _stack
                  ELSE /\ frames' = [frames EXCEPT ![Len(frames)].stage = "entries"]
                       /\ UNCHANGED <<_stack, exc, phase, result>>
             [] f.stage = "entries" /\ f.idx < Len(o.items) ->
                  /\ Enter(frames, o.items[f.idx + 1][2])
                  /\ UNCHANGED <<exc, phase, result>>
             [] OTHER ->
                  IF \E i \in 1..Len(o.items) : heap[o.items[i][1]].kind # "str"
                  THEN Propagate(Front(frames), "Exception") /\ UNCHANGED _stack
                  ELSE /\ frames' = <<>>
                       /\ phase' = "done"
                       /\ result' = Rendered(f, <<"Local variables in frame">>)
                       /\ UNCHANGED <<_stack, exc>>
    /\ UNCHANGED <<heap, call, last, profVars>>

\* --------------------------------------------------------- inspected values

Alphabet == {"b", "<", "'", "\"", "\\"}

Texts == TextsUpTo(Alphabet, MaxText)

\* User-defined types (strict subclasses): module and name, either of which may
\* hold a markup character; a class may also name "__builtin__" as its module.
SubTypes ==
    {<<<<"m">>, <<"T">>>>, <<<<"m">>, <<"T", "<">>>>, <<<<"m", "&">>, <<"T">>>>,
     <<<<"__builtin__">>, <<"T">>>>}

PlainSub == <<<<"m">>, <<"T">>>>

Types(kind) == {BaseType(kind)} \cup SubTypes

Typed(kind, t) == Obj(kind, t[1], t[2])

\* The base type of a kind, or a plain subclass of it.
BaseOrSub(kind, sub) == IF sub THEN PlainSub ELSE BaseType(kind)

Digits == <<"1", "2", "3", "4", "5", "6", "7", "8", "9", "10", "11", "12", "13", "14", "15", "16">>

Number(i) == [Exact("number") EXCEPT !.lit = <<Digits[i]>>]

Str(chars) == [Exact("str") EXCEPT !.chars = chars, !.lit = StrRepr(chars)]

\* The scalar values: the help sentinel, numbers (of a subclass: with the
\* __repr__ of the subclass), text and bytes (of a subclass: with the inherited
\* or an own __repr__), compiled patterns, generic objects.
ScalarObjs ==
    {Exact("help"), Number(1), [Typed("number", <<<<"builtins">>, <<"bool">>>>) EXCEPT !.lit = <<"True">>]}
    \cup {[Typed("number", t) EXCEPT !.lit = l] : t \in {PlainSub}, l \in Texts}
    \cup {[Typed("str", t) EXCEPT !.chars = c, !.lit = StrRepr(c)] : t \in Types("str"), c \in Texts}
    \cup {[Typed("str", t) EXCEPT !.lit = l] : t \in {PlainSub}, l \in Texts}
    \cup {[Typed("bytes", t) EXCEPT !.chars = c, !.lit = BytesRepr(c)] : t \in Types("bytes"), c \in Texts}
    \cup {[Typed("bytes", t) EXCEPT !.lit = l] : t \in {PlainSub}, l \in Texts}
    \cup {[Exact("regex") EXCEPT !.chars = c] : c \in Texts}
    \cup {[Typed("object", t) EXCEPT !.lit = l, !.chars = l, !.raises = r] :
             t \in {PlainSub}, l \in Texts, r \in Raises}

ScalarHeaps == {<<o>> : o \in ScalarObjs}

\* Text and bytes whose literal is about as long as the string limit.
LongHeaps ==
    {<<[Typed(k, BaseOrSub(k, sub)) EXCEPT !.chars = Repeat("b", n) \o tail,
                                           !.lit = IF k = "str" THEN StrRepr(Repeat("b", n) \o tail)
                                                   ELSE BytesRepr(Repeat("b", n) \o tail)]>> :
        k \in {"str", "bytes"}, sub \in BOOLEAN,
        n \in (StrLimit - MaxOver)..(StrLimit + MaxOver), tail \in {<<>>, <<"<">>}}

\* A container of n distinct numbers (a mapping: of n entries number: number).
FlatHeaps ==
    {[i \in 1..(n + 1) |->
         IF i <= n THEN Number(i)
         ELSE [Typed(k, BaseOrSub(k, sub)) EXCEPT
                  !.items = [j \in 1..n |-> IF k = "dict" THEN <<j, j>> ELSE j]]] :
        k \in ContainerKinds, sub \in BOOLEAN, n \in 0..(SeqLimit + MaxExtra)}

\* The second leaf of a value graph: a text, a number, or an object whose
\* __repr__ raises.
LeafVariants ==
    {Str(<<"<">>), Number(2)}
    \cup {[Typed("object", PlainSub) EXCEPT !.raises = r, !.chars = <<"<">>] :
             r \in Raises \ {"none"}}

SeqsUpTo(S, n) == UNION {[1..k -> S] : k \in 0..n}

\* The entry lists of a mapping: keys are leaves and differ from one another.
EntryLists(keys, values) ==
    {e \in SeqsUpTo(keys \X values, MaxItems) :
        \A i, j \in 1..Len(e) : i # j => e[i][1] # e[j][1]}

GraphContainers(elems) ==
    {[Exact("list") EXCEPT !.items = e] : e \in SeqsUpTo(elems, MaxItems)}
    \cup {[Exact("dict") EXCEPT !.items = e] : e \in EntryLists({1}, elems)}

\* Value graphs of two leaves and two containers (lists, and mappings of at
\* most one entry) that may hold a leaf, each other and themselves.
GraphHeaps ==
    {<<Str(<<"b">>), Number(2), c3, c4>> :
        c3 \in GraphContainers({2, 3, 4}), c4 \in GraphContainers({2, 3, 4})}

\* A mapping of leaves: its keys are text or not, in either order.
DictHeaps ==
    {<<Str(<<"b">>), leaf, [Typed("dict", BaseOrSub("dict", sub)) EXCEPT !.items = e]>> :
        leaf \in LeafVariants, sub \in BOOLEAN, e \in EntryLists({1, 2}, {1, 2})}

\* A container of every kind, of the base type and of a subclass, that holds
\* the leaves, itself, and a list that holds it twice; its iteration may raise.
RingHeaps ==
    {<<Str(<<"b">>), leaf,
       [Typed(k, BaseOrSub(k, sub)) EXCEPT
           !.items = IF k = "dict" THEN <<<<1, 3>>, <<2, 4>>>> ELSE <<1, 2, 3, 4>>,
           !.raises = r],
       [Exact("list") EXCEPT !.items = <<3, 3>>]>> :
        leaf \in LeafVariants, k \in ContainerKinds, sub \in BOOLEAN,
        r \in {"none", "Exception"}}

AttrNames == <<<<"a">>, <<"b", "<">>, <<"c">>, <<"d">>, <<"e">>>>

AttrLists ==
    UNION {{[i \in 1..n |-> [name |-> AttrNames[i], val |-> v[i], raises |-> r[i]]] :
               v \in [1..n -> {1, 2}], r \in [1..n -> BOOLEAN]} : n \in 0..(MaxItems + 1)}

\* An object with attributes: reading an attribute may raise, dir() may raise.
AttrHeaps ==
    {<<Number(1), leaf, [Typed("object", PlainSub) EXCEPT !.lit = <<"o">>, !.attrs = a,
                                                         !.dirRaises = d]>> :
        leaf \in {Number(2), [Typed("object", PlainSub) EXCEPT !.raises = "Exception"],
                  [Typed("object", PlainSub) EXCEPT !.raises = "BaseException"]},
        a \in AttrLists, d \in BOOLEAN}

Heaps ==
    ScalarHeaps \cup LongHeaps \cup FlatHeaps \cup GraphHeaps \cup DictHeaps \cup RingHeaps
        \cup AttrHeaps

\* ------------------------------------------------------------ specification

NoEnviron == [has_path |-> FALSE, PATH_INFO |-> <<>>, REQUEST_METHOD |-> "GET"]

NoProfiler ==
    [profile_dir_none |-> TRUE, filename_format |-> "string", stream_none |-> TRUE,
     app_iter |-> <<>>]

NoPResult == [kind |-> "none", body |-> <<>>, path |-> <<>>, filename |-> <<>>, stream |-> <<>>]

\* DebugReprGenerator.__init__: a fresh generator, and a value graph to render.
Init ==
    /\ heap \in Heaps
    /\ phase = "idle"
    /\ call = NoTopCall
    /\ frames = <<>>
    /\ _stack = <<>>
    /\ exc = "none"
    /\ last = NoCall
    /\ result = NoResult
    /\ environ = NoEnviron
    /\ profiler = NoProfiler
    /\ presult = NoPResult

Next ==
    \/ \E obj \in DOMAIN heap : StartRepr(obj)
    \/ \E obj \in DOMAIN heap : StartDumpObject(obj)
    \/ \E d \in DOMAIN heap : StartDumpLocals(d)
    \/ ReprLeaf
    \/ IterCall
    \/ IterFinish
    \/ Unwind
    \/ DumpObjectStep
    \/ DumpLocalsStep

Spec == Init /\ [][Next]_vars

\* A fresh generator, and a value graph with cycles to render.
CyclicInit == Init /\ heap \in GraphHeaps \cup RingHeaps

\* The engine is synchronous: a call that can take a step takes it.
FairSpec == CyclicInit /\ [][Next]_vars /\ WF_vars(Next)

\* ----------------------------------------------------- profiler middleware

RECURSIVE LStrip(_, _)
LStrip(s, c) == IF s # <<>> /\ s[1] = c THEN LStrip(Tail(s), c) ELSE s

RECURSIVE RStrip(_, _)
RStrip(s, c) == IF s # <<>> /\ s[Len(s)] = c THEN RStrip(Front(s), c) ELSE s

\* str.strip(c)
Strip(s, c) == RStrip(LStrip(s, c), c)

\* str.replace(a, b), one character for one character
Replace(s, a, b) == [i \in 1..Len(s) |-> IF s[i] = a THEN b ELSE s[i]]

\* path.strip("/").replace("/", ".") or "root"
PathField(path) ==
    LET p == Replace(Strip(path, "/"), "/", ".")
    IN  IF p = <<>> THEN <<"root">> ELSE p

\* environ.get("PATH_INFO"): the value, or None when the key is absent.  None
\* has no strip method: the chained call raises AttributeError.
EnvironGet(env) == [none |-> ~env.has_path, value |-> env.PATH_INFO]

PathAlphabet == {"/", "a", "."}

\* The requests: PATH_INFO absent, or a text; PATH_INFO is kept empty when absent.
Environs ==
    {[has_path |-> TRUE, PATH_INFO |-> p, REQUEST_METHOD |-> m] :
        p \in TextsUpTo(PathAlphabet, MaxPath), m \in {"GET", "POST"}}
    \cup {[has_path |-> FALSE, PATH_INFO |-> <<>>, REQUEST_METHOD |-> m] : m \in {"GET", "POST"}}

\* The middleware instances: profile_dir given or None, filename_format a
\* string (the default format) or a callable, stream given or None, and the
\* chunks the wrapped application yields.
Profilers ==
    [profile_dir_none : BOOLEAN, filename_format : {"string", "callable"},
     stream_none : BOOLEAN, app_iter : {<<>>, <<<<"x">>>>, <<<<"x">>, <<"y">>>>}]

\* ProfilerMiddleware.__call__(environ, start_response)
ProfilerCall ==
    /\ presult.kind = "none"
    /\ LET body == Join(profiler.app_iter)
           got == EnvironGet(environ)
           named == ~profiler.profile_dir_none
           formatted == named /\ profiler.filename_format = "string"
           path == IF formatted /\ ~got.none THEN PathField(got.value) ELSE <<>>
           filename ==
               IF ~named THEN <<>>
               ELSE <<"profile_dir", "/">> \o
                    (IF formatted
                     THEN <<environ.REQUEST_METHOD, ".">> \o path
                              \o <<".", "{elapsed:.0f}", "ms.", "{time:.0f}", ".prof">>
                     ELSE <<"filename_format(environ)">>)
           stream == IF profiler.stream_none THEN <<>>
                     ELSE <<"PATH: ">> \o StrRepr(environ.PATH_INFO)
       IN  presult' =
               IF formatted /\ got.none
               THEN [kind |-> "raised", body |-> <<"AttributeError">>, path |-> <<>>,
                     filename |-> <<>>, stream |-> <<>>]
               ELSE [kind |-> "returned", body |-> <<body>>, path |-> path,
                     filename |-> filename, stream |-> stream]
    /\ UNCHANGED <<environ, profiler, reprVars>>

\* ProfilerMiddleware.__init__, and a request about to be served.
ProfInit ==
    /\ heap = <<>>
    /\ phase = "idle"
    /\ call = NoTopCall
    /\ frames = <<>>
    /\ _stack = <<>>
    /\ exc = "none"
    /\ last = NoCall
    /\ result = NoResult
    /\ environ \in Environs
    /\ profiler \in Profilers
    /\ presult = NoPResult

ProfNext == ProfilerCall

ProfSpec == ProfInit /\ [][ProfNext]_vars

\* ------------------------------------------------------------------ claims

\* The repr call that completed last returned a fragment.
LastReturned == last.obj # 0 /\ last.exc = "none"

LastObj == heap[last.obj]

\* The completed call iterated its argument to the end.
LastExpanded ==
    /\ LastReturned
    /\ IsContainer(LastObj)
    /\ ~last.recursive
    /\ LastObj.raises = "none"

\* The pieces of a container's buffer that are rendered elements: all but the
\* brackets, the separators and the wrapper's opening and closing tags.
IsElementPiece(piece) == piece \notin {<<", ">>, <<SpanExtended>>, <<SpanClose>>}

ElementsBefore(buf, k) == Cardinality({i \in 2..(k - 1) : IsElementPiece(buf[i])})

ElementPieces(buf) == SelectSeq(SubSeq(buf, 2, Len(buf) - 1), IsElementPiece)

ExtendedPositions(buf) == {i \in 1..Len(buf) : buf[i] = <<SpanExtended>>}

IsLeaf(id) == ~IsContainer(heap[id])

\* What a value that is no container renders as.
LeafFragment(id) == TryDispatch(heap[id], FALSE).out

BrokenFragment(o) ==
    <<SpanBroken, "&lt;broken repr (">>
        \o escape(IF o.raises = "ExceptionNoSummary" THEN <<"?">>
                  ELSE <<"Exception", ": ">> \o o.chars)
        \o <<")&gt;</span>">>

\* C1: the fragment a repr call returns holds no markup-significant character
\* of the inspected value that is not escaped.
C1_NoUnescapedMarkup ==
    LastReturned => Range(last.out) \cap Significant = {}

\* C2 as stated: every repr call returns a fragment, whatever rendering raises.
C2_NoExceptionEscapes ==
    last.obj # 0 => last.exc = "none"

\* C2, amended: an exception that is an Exception never leaves a repr call; the
\* value whose rendering raised it is rendered as the broken-representation
\* fragment with the summary or "?", and a container still renders every other
\* element and entry as that element renders alone.  Only a BaseException that
\* is no Exception, raised by a value of the graph, leaves the call.
C2_ExceptionsContained ==
    last.obj # 0 =>
        /\ last.exc \in {"none", "BaseException"}
        /\ last.exc = "BaseException" =>
               \E id \in DOMAIN heap : heap[id].raises = "BaseException"
        /\ (/\ LastObj.raises \in {"Exception", "ExceptionNoSummary"}
            /\ LastObj.kind # "help"
            /\ ~(IsContainer(LastObj) /\ last.recursive))
               => last.exc = "none" /\ last.out = BrokenFragment(LastObj)
        /\ LastExpanded =>
               LET e == ElementPieces(last.buf)
                   items == LastObj.items
               IN  /\ Len(e) = Len(items)
                   /\ \A i \in 1..Len(items) :
                          IF LastObj.kind = "dict"
                          THEN IsLeaf(items[i][1]) /\ IsLeaf(items[i][2]) =>
                                   e[i] = PairPiece(LeafFragment(items[i][1]),
                                                    LeafFragment(items[i][2]))
                          ELSE IsLeaf(items[i]) => e[i] = LeafFragment(items[i])

\* C2 witness: a container was rendered to the end with an element whose
\* rendering raised an Exception and an element whose rendering did not.
C2_Witness ==
    /\ phase = "done"
    /\ call.fn = "repr"
    /\ result.kind = "returned"
    /\ LastExpanded
    /\ LastObj.kind \notin {"dict"}
    /\ \E i, j \in 1..Len(LastObj.items) :
           /\ heap[LastObj.items[i]].raises = "Exception"
           /\ heap[LastObj.items[j]].kind = "str"

\* The objects of the active repr calls, the outermost first.
ReprObjs(fr) ==
    LET r == SelectSeq(fr, LAMBDA f : f.fn = "repr")
    IN  [i \in 1..Len(r) |-> r[i].obj]

ReprFrames == SelectSeq(frames, LAMBDA f : f.fn = "repr")

\* C3: a container is rendered as the recursion placeholder, and none of its
\* elements is rendered, exactly when the very object (its identity) is among
\* the ancestors of the call; otherwise all its elements are rendered.
C3_PlaceholderIffAncestor ==
    /\ \A k \in 1..Len(ReprFrames) :
           ReprFrames[k].recursive <=> (\E j \in 1..(k - 1) : _stack[j] = ReprFrames[k].obj)
    /\ (LastReturned /\ IsContainer(LastObj)) =>
           /\ last.recursive <=>
                  last.out = AddSubclassInfo(Placeholder(LastObj.kind), LastObj, Bases(LastObj.kind))
           /\ last.recursive => last.buf = <<>>
           /\ LastExpanded => Len(ElementPieces(last.buf)) = Len(LastObj.items)

\* C3 witness: a container was rendered in full while a distinct container of
\* equal value was among its ancestors.
C3_Witness ==
    /\ LastExpanded
    /\ \E j \in 1..Len(_stack) :
           /\ _stack[j] # last.obj
           /\ heap[_stack[j]] = LastObj
    /\ LastObj.items # <<>>

\* No object is iterated twice on one chain of calls.
NoReexpansion ==
    \A i, j \in 1..Len(ReprFrames) :
        (i < j /\ ReprFrames[i].obj = ReprFrames[j].obj) => ReprFrames[j].recursive

C5_StackDiscipline ==
    /\ _stack = ReprObjs(frames)
    /\ phase \in {"idle", "done"} => _stack = <<>>

\* C5 witness: the top-level call ended with an exception that passed through
\* the repr call of a container, and the stack is empty.
C5_Witness ==
    /\ phase = "done"
    /\ result.kind = "raised"
    /\ last.obj # 0
    /\ IsContainer(LastObj)
    /\ last.exc = "BaseException"
    /\ _stack = <<>>

\* The declared limit of a kind: limit=8 of the sequence renderers, limit=5 of
\* dict_repr.
Limit(kind) == IF kind = "dict" THEN DictLimit ELSE SeqLimit

\* C6: a container of more elements than its limit L shows exactly the first L
\* outside one "extended" wrapper that is closed before the right bracket; a
\* container of at most L elements has no wrapper.
C6_FirstLimitElementsOutside ==
    LastExpanded =>
        LET buf == last.buf
            n == Len(LastObj.items)
            L == Limit(LastObj.kind)
            ext == ExtendedPositions(buf)
        IN  IF n > L
            THEN /\ Cardinality(ext) = 1
                 /\ \A k \in ext : ElementsBefore(buf, k) = L
                 /\ buf[Len(buf) - 1] = <<SpanClose>>
            ELSE /\ ext = {}
                 /\ buf[Len(buf) - 1] # <<SpanClose>>

\* The value with its exact type replaced by the base type of its kind.
AsBase(o) == [o EXCEPT !.tmodule = BaseType(o.kind)[1], !.tname = BaseType(o.kind)[2]]

\* What the base-type value renders as: the fragment before any annotation.
NormalFragment ==
    IF LastExpanded THEN Join(last.buf)
    ELSE TryDispatch(AsBase(LastObj), last.recursive).out

\* The module qualifier of the annotation: none for the namespaces
\* _add_subclass_info takes for built-in.
ModuleQualifier(o) ==
    IF o.tmodule \in {<<"__builtin__">>, <<"exceptions">>} THEN <<>>
    ELSE <<SpanModule>> \o o.tmodule \o <<".", SpanClose>>

Wrapped(o, inner, qualifier) == qualifier \o o.tname \o <<"(">> \o inner \o <<")">>

\* The completed call rendered a scalar or a container, and not as a broken
\* representation.
Annotatable ==
    /\ LastReturned
    /\ LastObj.kind \in {"number", "str", "bytes"} \cup ContainerKinds
    /\ last.out[1] # SpanBroken

LooksLikeString(r) ==
    \/ r[1] \in {"'", "\""}
    \/ r[1] = "b" /\ Len(r) >= 2 /\ r[2] \in {"'", "\""}

\* C7 as stated: a number, text, bytes or container value is annotated, as
\* TypeName(normalFragment) with or without the module qualifier, exactly when
\* its type is not the base type of its kind.
C7_AnnotatedIffSubclass ==
    Annotatable =>
        IF TypeOf(LastObj) \in Bases(LastObj.kind) THEN last.out = NormalFragment
        ELSE last.out \in {Wrapped(LastObj, NormalFragment, <<>>),
                           Wrapped(LastObj, NormalFragment, ModuleQualifier(LastObj))}

\* C7, amended: a text, bytes or container value (the recursion placeholder
\* included) is annotated, as qualifier TypeName(normalFragment), exactly when
\* its type is not the base type of its kind and, for text and bytes, its
\* literal starts like a string literal; a number is never annotated.
C7_AnnotatedIffSubclassOfContainerOrText ==
    Annotatable =>
        LET applies ==
                /\ TypeOf(LastObj) \notin Bases(LastObj.kind)
                /\ LastObj.kind # "number"
                /\ LastObj.kind \in {"str", "bytes"} => LooksLikeString(LastObj.lit)
        IN  IF applies
            THEN last.out = Wrapped(LastObj, NormalFragment, ModuleQualifier(LastObj))
            ELSE last.out = NormalFragment

\* C7 witness: a container of a subclass met on its own chain of ancestors was
\* rendered as the annotated placeholder.
C7_Witness ==
    /\ Annotatable
    /\ IsContainer(LastObj)
    /\ last.recursive
    /\ TypeOf(LastObj) \notin Bases(LastObj.kind)
    /\ last.out = Wrapped(LastObj, Placeholder(LastObj.kind), ModuleQualifier(LastObj))

DumpReturned(fn) == phase = "done" /\ call.fn = fn /\ result.kind = "returned"

AllTextKeys(o) == \A i \in 1..Len(o.items) : heap[o.items[i][1]].kind = "str"

ReadableAttrs(o) == SelectSeq(o.attrs, LAMBDA a : ~a.raises)

\* What a row shows of a value that is no container.
RowShows(row, id) == IsLeaf(id) => row[2] = LeafFragment(id)

\* C8: dump_object of a mapping whose keys are all text gives "Contents of",
\* one row per entry in entry order and no top-level representation; of any
\* other value, a mapping with a key that is no text included, "Details for",
\* the top-level representation and one row per attribute that could be read.
C8_DumpObjectTable ==
    DumpReturned("dump_object") =>
        LET o == heap[call.obj]
            rows == result.items
        IN  IF o.kind = "dict" /\ AllTextKeys(o)
            THEN /\ result.title = <<"Contents of", " ">> \o Descriptor(o)
                 /\ result.repr_none
                 /\ Len(rows) = Len(o.items)
                 /\ \A i \in 1..Len(rows) :
                        /\ rows[i][1] = heap[o.items[i][1]].chars
                        /\ RowShows(rows[i], o.items[i][2])
            ELSE /\ result.title = <<"Details for", " ">> \o Descriptor(o)
                 /\ ~result.repr_none
                 /\ result.repr # <<>>
                 /\ IsLeaf(call.obj) => result.repr = LeafFragment(call.obj)
                 /\ Len(rows) = Len(ReadableAttrs(o))
                 /\ \A i \in 1..Len(rows) :
                        /\ rows[i][1] = ReadableAttrs(o)[i].name
                        /\ RowShows(rows[i], ReadableAttrs(o)[i].val)

\* C8 witness: dump_object returned the table of a mapping whose first key is
\* text and whose second key is not.
C8_Witness ==
    /\ DumpReturned("dump_object")
    /\ heap[call.obj].kind = "dict"
    /\ Len(heap[call.obj].items) >= 2
    /\ heap[heap[call.obj].items[1][1]].kind = "str"
    /\ heap[heap[call.obj].items[2][1]].kind # "str"
    /\ result.title[1] = "Details for"

\* C9: dump_object and dump_locals always return a table to their caller.
C9_DumpNeverRaises ==
    (phase = "done" /\ call.fn \in {"dump_object", "dump_locals"}) => result.kind = "returned"

\* C10: with profile_dir set and a string filename_format, the call returns
\* the buffered body, and the path field is the request path with its outer
\* slashes removed and the others replaced by dots, or root when the path
\* is empty, only slashes, or absent.
C10_PathFieldOrRoot ==
    (/\ presult.kind # "none"
     /\ ~profiler.profile_dir_none
     /\ profiler.filename_format = "string")
        => /\ presult.kind = "returned"
           /\ presult.body = <<Join(profiler.app_iter)>>
           /\ presult.path = PathField(environ.PATH_INFO)

====
